---- MODULE Spec2Model ----
(***************************************************************************)
(* VioletteStores API: the cart store, the transaction ledger and the      *)
(* payment orchestrator of shop/views.py over the tables of                *)
(* shop/models.py.  Money is counted in hundredths (Decimal with two       *)
(* decimal places), so Decimal('4.00') is 400.                             *)
(***************************************************************************)
EXTENDS Integers, FiniteSets, Sequences, TLC

VARIABLES
    carts,          \* Cart rows: cart_code -> [paid, user]
    items,          \* CartItem rows: id -> [cart, product, quantity]
    nextItemId,     \* the AutoField sequence of CartItem
    transactions,   \* Transaction rows in insertion order
    pc,             \* the add_item requests in flight (SpecRace)
    products,       \* Product rows written by save(): pk -> [name, slug]
    categories,     \* Category rows written by save(): pk -> [name, slug]
    sv,             \* the Product.save() calls in flight (SpecCatalog)
    users           \* User rows: pk -> [username, email, password]

vars == <<carts, items, nextItemId, transactions, pc, products, categories,
          sv, users>>

\* the tables the cart and payment handlers never write
catalogVars == <<products, categories, sv>>

\* the tables and requests of the cart and payment handlers
shopVars == <<carts, items, nextItemId, transactions, pc>>

----------------------------------------------------------------------------
(* Bounds of the model *)

MaxItems == 2       \* CartItem ids ever handed out
MaxTx == 2          \* Transaction rows ever inserted
MaxQty == 2         \* largest quantity a request carries
MaxNegQty == 0      \* most negative quantity a request carries is -MaxNegQty
MaxProducts == 2    \* Product rows ever inserted
MaxCategories == 2  \* Category rows ever inserted
MaxSlugTokens == 3  \* longest slug stored, in hyphen-separated tokens
MaxUsers == 3       \* User rows ever inserted

(* Program constants *)

Tax == 400          \* Decimal('4.00')

----------------------------------------------------------------------------
(* The data the requests draw from *)

CartCodes == {"c1", "c2"}
ProductIds == {"p1", "p2"}          \* the Product rows of the catalog
RequestProductIds == ProductIds \cup {"p9"}   \* "p9": no such Product
Price(p) == IF p = "p1" THEN 1000 ELSE 500
Users == {"u1"}
AnonymousUser == "AnonymousUser"
NULL == "NULL"
Refs == 1 .. MaxTx                  \* the values uuid4 returns
NoRef == 0                          \* a tx_ref no uuid4 returned, or none
ItemIds == 1 .. MaxItems
Procs == {"w1", "w2"}

\* gw: the gateway endpoint the handler called ("none", "payments", "verify")
Response(op, code, msg, gw) == [op |-> op, code |-> code, msg |-> msg, gw |-> gw]

Idle == [at |-> "idle", cart |-> "", product |-> "", item |-> 0]

\* no Product.save() in flight
SaveIdle == [at |-> "idle", pk |-> 0, name |-> <<>>, given |-> <<>>,
             base |-> <<>>, slug |-> <<>>, counter |-> 0]

\* The cart and payment handlers only read Product rows: Spec and SpecRace
\* take the catalog as the fixed ProductIds.  The tables save() writes start
\* empty and are filled in SpecCatalog, the User table in SpecRegister.
Init ==
    /\ carts = <<>>
    /\ items = <<>>
    /\ nextItemId = 1
    /\ transactions = <<>>
    /\ pc = [w \in Procs |-> Idle]
    /\ products = <<>>
    /\ categories = <<>>
    /\ sv = [w \in Procs |-> SaveIdle]
    /\ users = <<>>

----------------------------------------------------------------------------
(* ORM helpers *)

\* Cart.objects.get_or_create(cart_code=cart_code)
GetOrCreateCart(cs, code) ==
    IF code \in DOMAIN cs
    THEN cs
    ELSE [c \in DOMAIN cs \cup {code} |->
            IF c = code THEN [paid |-> FALSE, user |-> NULL] ELSE cs[c]]

\* CartItem.objects.filter(cart=cart, product=product)
ItemsOf(its, code, p) ==
    {i \in DOMAIN its : its[i].cart = code /\ its[i].product = p}

\* cartItem.save(): UPDATE the row with that id, INSERT it when none matched
SaveItem(its, id, row) ==
    [i \in DOMAIN its \cup {id} |-> IF i = id THEN row ELSE its[i]]

\* cart_item.delete()
DeleteRow(its, id) == [i \in DOMAIN its \ {id} |-> its[i]]

----------------------------------------------------------------------------
(* Cart API *)

NewItem(code, p) == [cart |-> code, product |-> p, quantity |-> 1]

\* the get of get_or_create: "DoesNotExist", "MultipleObjectsReturned" or
\* "found"
ItemGet(its, code, p) ==
    IF ItemsOf(its, code, p) = {} THEN "DoesNotExist"
    ELSE IF Cardinality(ItemsOf(its, code, p)) > 1
    THEN "MultipleObjectsReturned"
    ELSE "found"

\* the create of get_or_create: CartItem has no unique constraint on
\* (cart, product), so the INSERT always goes through
ItemCreate(its, nid, code, p) == SaveItem(its, nid, NewItem(code, p))

\* CartItem.objects.get_or_create(cart=cart, product=product): the rows, the
\* sequence and the id of the instance returned (0: MultipleObjectsReturned)
GetOrCreateItem(its, nid, code, p) ==
    IF ItemGet(its, code, p) = "MultipleObjectsReturned"
    THEN [items |-> its, next |-> nid, item |-> 0]
    ELSE IF ItemGet(its, code, p) = "DoesNotExist"
    THEN [items |-> ItemCreate(its, nid, code, p), next |-> nid + 1,
          item |-> nid]
    ELSE [items |-> its, next |-> nid,
          item |-> CHOOSE i \in ItemsOf(its, code, p) : TRUE]

\* add_item up to the second get_or_create
AddItemLookup(cs, its, nid, code, p) ==
    IF p \notin ProductIds
    THEN [kind |-> "Http404", carts |-> cs, items |-> its, next |-> nid,
          item |-> 0]
    ELSE LET cs2 == GetOrCreateCart(cs, code)
             g == GetOrCreateItem(its, nid, code, p)
         IN  [kind |-> IF g.item = 0 THEN "MultipleObjectsReturned" ELSE "ok",
              carts |-> cs2, items |-> g.items, next |-> g.next,
              item |-> g.item]

\* AddItemStore with the quantity of a row already there counted up
AddItemStoreAdding(its, id, code, p) ==
    SaveItem(its, id, [cart |-> code, product |-> p,
                       quantity |-> IF id \in DOMAIN its
                                    THEN its[id].quantity + 1 ELSE 1])

\* add_item from cartItem.quantity = 1 on: the instance is saved with quantity 1
AddItemStore(its, id, code, p) ==
    SaveItem(its, id, [cart |-> code, product |-> p, quantity |-> 1])

\* the answer of add_item
AddItemResponse(code, p) ==
    LET o == AddItemLookup(carts, items, nextItemId, code, p) IN
    IF o.kind = "ok"
    THEN Response("add_item", 201, "Product Added Successfully", "none")
    ELSE Response("add_item", 400, o.kind, "none")

\* the CartItem rows add_item leaves
AddItemItems(code, p) ==
    LET o == AddItemLookup(carts, items, nextItemId, code, p) IN
    IF o.kind = "ok" THEN AddItemStore(o.items, o.item, code, p) ELSE o.items

\* add_item, one request handled alone
AddItem(code, p) ==
    LET o == AddItemLookup(carts, items, nextItemId, code, p) IN
    /\ o.next <= MaxItems + 1
    /\ carts' = o.carts
    /\ nextItemId' = o.next
    /\ items' = AddItemItems(code, p)
    /\ UNCHANGED <<transactions, pc, catalogVars, users>>

\* The quantity of a request body: a JSON integer, a string of decimal
\* digits, a JSON number with a fraction (counted in tenths), anything else
QuantityValues ==
    [kind : {"int", "str"}, val : (0 - MaxNegQty) .. MaxQty]
    \cup [kind : {"float"},
          val : {10 * n + 5 : n \in (0 - MaxNegQty - 1) .. (MaxQty - 1)}]
    \cup {[kind |-> "bad", val |-> 0]}

\* int(quantity): a fraction is cut towards zero; None and text that is no
\* integer raise
PyIntRaises(v) == v.kind = "bad"
PyInt(v) ==
    IF v.kind = "float"
    THEN IF v.val >= 0 THEN v.val \div 10 ELSE 0 - ((0 - v.val) \div 10)
    ELSE v.val

\* the answer of update_quantity
UpdateQuantityResponse(id, v) ==
    IF id \notin DOMAIN items
    THEN Response("update_quantity", 404, "Not found.", "none")
    ELSE IF PyIntRaises(v)
    THEN Response("update_quantity", 500, "ValueError", "none")
    ELSE Response("update_quantity", 200, "Quantity updated successfully",
                  "none")

\* the CartItem rows update_quantity leaves
UpdateQuantityItems(id, v) ==
    IF id \in DOMAIN items /\ ~PyIntRaises(v)
    THEN SaveItem(items, id, [items[id] EXCEPT !.quantity = PyInt(v)])
    ELSE items

\* update_quantity
UpdateQuantity(id, v) ==
    /\ items' = UpdateQuantityItems(id, v)
    /\ UNCHANGED <<carts, nextItemId, transactions, pc, catalogVars, users>>

\* the answer of delete_item
DeleteItemResponse(id) ==
    IF id \notin DOMAIN items
    THEN Response("delete_item", 404, "Not found.", "none")
    ELSE Response("delete_item", 204, "Item deleted successfully", "none")

\* delete_item
DeleteItem(id) ==
    /\ items' = IF id \in DOMAIN items THEN DeleteRow(items, id) ELSE items
    /\ UNCHANGED <<carts, nextItemId, transactions, pc, catalogVars, users>>

\* The answer of product_in_cart.  get_object_or_404 raises Http404, which
\* is neither Cart.DoesNotExist nor Product.DoesNotExist: the last handler,
\* except Exception, takes it and answers {'error': str(e)}.  The Cart is
\* looked up first, then the Product, then
\* CartItem.objects.filter(cart=cart, product=product).exists()
ProductInCartResponse(cs, its, code, p) ==
    IF code \notin DOMAIN cs
    THEN [status |-> 200,
          body |-> [error |-> "No Cart matches the given query."]]
    ELSE IF p \notin ProductIds
    THEN [status |-> 200,
          body |-> [error |-> "No Product matches the given query."]]
    ELSE [status |-> 200,
          body |-> [product_exists |-> ItemsOf(its, code, p) # {}]]

----------------------------------------------------------------------------
(* Payment orchestrator *)

RECURSIVE SumLines(_, _)
\* sum([item.quantity * item.product.price for item in ...]) over the rows S
SumLines(its, S) ==
    IF S = {} THEN 0
    ELSE LET i == CHOOSE x \in S : TRUE
         IN  its[i].quantity * Price(its[i].product) + SumLines(its, S \ {i})

\* cart.items.all()
CartItemsOf(its, code) == {i \in DOMAIN its : its[i].cart = code}

\* get_sum_total of CartSerializer
GetSumTotal(its, code) == SumLines(its, CartItemsOf(its, code))

RECURSIVE SumQuantities(_, _)
\* sum([item.quantity for item in ...]) over the rows S
SumQuantities(its, S) ==
    IF S = {} THEN 0
    ELSE LET i == CHOOSE x \in S : TRUE
         IN  its[i].quantity + SumQuantities(its, S \ {i})

\* GetNumOfItems with the rows counted, not their quantities
GetNumOfItemsCountingRows(its, code) == Cardinality(CartItemsOf(its, code))

\* get_num_of_items of CartSerializer
GetNumOfItems(its, code) == SumQuantities(its, CartItemsOf(its, code))

\* get_number_of_items of SimpleCartSerializer, over
\* CartItem.objects.filter(cart=obj)
GetNumberOfItems(its, code) ==
    SumQuantities(its, {i \in DOMAIN its : its[i].cart = code})

\* TotalAmount with the quantities left out of the sum
TotalAmountOfPrices(its, code) ==
    SumLines([i \in DOMAIN its |-> [its[i] EXCEPT !.quantity = 1]],
             CartItemsOf(its, code)) + Tax

\* total_amount = amount + tax
TotalAmount(its, code) == SumLines(its, CartItemsOf(its, code)) + Tax

\* ref = models.CharField(unique=True): the INSERT is refused when a row
\* holds the ref already
RefIsFree(txs, ref) == \A i \in 1 .. Len(txs) : txs[i].ref # ref

\* Transaction.objects.create(...)
NewTransaction(ref, code, amount, user) ==
    [ref |-> ref, cart |-> code, amount |-> amount, currency |-> "NGN",
     user |-> user, status |-> "pending"]

\* Cart.objects.get(cart_code=cart_code): whether a row comes back
CartFound(cs, code) == code \in DOMAIN cs

\* whether initiate_payment gets as far as Transaction.objects.create and
\* the INSERT goes through
InitiateStores(code, ref) ==
    CartFound(carts, code) /\ RefIsFree(transactions, ref)

\* the answer of initiate_payment: net is what requests.post did ("ok": 200,
\* "rejected": the gateway's own error status, "network_error": a
\* RequestException)
InitiateResponse(code, ref, net) ==
    IF ~CartFound(carts, code)
    THEN Response("initiate_payment", 500, "Cart.DoesNotExist", "none")
    ELSE IF ~RefIsFree(transactions, ref)
    THEN Response("initiate_payment", 500, "IntegrityError", "none")
    ELSE IF net = "ok"
    THEN Response("initiate_payment", 200, "gateway body", "payments")
    ELSE IF net = "rejected"
    THEN Response("initiate_payment", 400, "gateway error body", "payments")
    ELSE Response("initiate_payment", 500, "RequestException", "payments")

\* RowsAfterInitiate with the row taken back when requests.post raised
RowsAfterInitiateRolledBack(txs, row, net) ==
    IF net = "network_error" THEN txs ELSE Append(txs, row)

\* the Transaction rows when initiate_payment returns, the row having been
\* inserted and requests.post having done net
RowsAfterInitiate(txs, row, net) == Append(txs, row)

\* the Transaction rows initiate_payment leaves; ref is what uuid4 returned
InitiateTransactions(user, code, ref, net) ==
    IF InitiateStores(code, ref)
    THEN RowsAfterInitiate(transactions,
             NewTransaction(ref, code, TotalAmount(items, code), user), net)
    ELSE transactions

\* initiate_payment, for an authenticated user
InitiatePayment(user, code, ref, net) ==
    /\ InitiateStores(code, ref) => Len(transactions) < MaxTx
    /\ transactions' = InitiateTransactions(user, code, ref, net)
    /\ UNCHANGED <<carts, items, nextItemId, pc, catalogVars, users>>

\* StatusProceeds with every status but "failed" let through
StatusProceedsUnlessFailed(status) == status # "failed"

\* the status query parameter lets the callback proceed
StatusProceeds(status) == status = "successful"

\* float(b) of a bool b
PyFloatOfBool(b) == IF b THEN 1 ELSE 0

\* ConfirmDetails with the amounts left out of the comparison
ConfirmDetailsNoAmount(vr, t) ==
    /\ vr.dstatus = "successful"
    /\ vr.currency = t.currency

\* the three conditions of the callback; the amounts are compared inside
\* float(...), whose value is then taken as a truth value
ConfirmDetails(vr, t) ==
    /\ vr.dstatus = "successful"
    /\ PyFloatOfBool(vr.amount = t.amount) # 0
    /\ vr.currency = t.currency

\* Transaction.objects.get(ref=tx_ref): the index of the row, 0 when none
TransactionByRef(txs, ref) ==
    IF \E i \in 1 .. Len(txs) : txs[i].ref = ref
    THEN CHOOSE i \in 1 .. Len(txs) : txs[i].ref = ref
    ELSE 0

\* cart.user = user raises ValueError unless user is a User row
AssignableUser(user) == user \in Users

\* CartMarkedPaid with the update reaching every Cart row
CartMarkedPaidEveryRow(cs, code, user) ==
    [c \in DOMAIN cs |-> [paid |-> TRUE, user |-> user]]

\* the Cart rows after the callback's cart.save()
CartMarkedPaid(cs, code, user) ==
    [cs EXCEPT ![code] = [paid |-> TRUE, user |-> user]]

\* How far payment_callback gets; vr is what requests.get(.../verify)
\* brought back: vr.status is "unreachable" when it raised, else the body's
\* status, and dstatus, amount, currency are the body's data
CallbackPath(user, status, tx_ref, vr) ==
    IF ~StatusProceeds(status) THEN "not_successful"
    ELSE IF vr.status = "unreachable" THEN "RequestException"
    ELSE IF vr.status # "success" THEN "not_verified"
    ELSE LET i == TransactionByRef(transactions, tx_ref) IN
         IF i = 0 THEN "Transaction.DoesNotExist"
         ELSE IF ~ConfirmDetails(vr, transactions[i]) THEN "mismatch"
         ELSE IF ~AssignableUser(user) THEN "ValueError"
         ELSE "paid"

\* the answer of payment_callback
CallbackResponse(user, status, tx_ref, vr) ==
    LET path == CallbackPath(user, status, tx_ref, vr) IN
    IF path = "not_successful"
    THEN Response("payment_callback", 400, "Payment was not successful.",
                  "none")
    ELSE IF path = "not_verified"
    THEN Response("payment_callback", 400,
                  "Failed to verify transaction with Flutterwave.", "verify")
    ELSE IF path = "mismatch"
    THEN Response("payment_callback", 400, "Payment Verification Failed",
                  "verify")
    ELSE IF path = "paid"
    THEN Response("payment_callback", 200, "Payment Successful!", "verify")
    ELSE Response("payment_callback", 500, path, "verify")

\* the Transaction rows payment_callback leaves: transaction.save() comes
\* before cart.user = user, so the row is stored as completed also when
\* that assignment raises
CallbackTransactions(user, status, tx_ref, vr) ==
    IF CallbackPath(user, status, tx_ref, vr) \in {"paid", "ValueError"}
    THEN [transactions EXCEPT
            ![TransactionByRef(transactions, tx_ref)].status = "completed"]
    ELSE transactions

\* the Cart rows payment_callback leaves
CallbackCarts(user, status, tx_ref, vr) ==
    IF CallbackPath(user, status, tx_ref, vr) = "paid"
    THEN CartMarkedPaid(carts,
             transactions[TransactionByRef(transactions, tx_ref)].cart, user)
    ELSE carts

\* payment_callback
PaymentCallback(user, status, tx_ref, vr) ==
    /\ transactions' = CallbackTransactions(user, status, tx_ref, vr)
    /\ carts' = CallbackCarts(user, status, tx_ref, vr)
    /\ UNCHANGED <<items, nextItemId, pc, catalogVars, users>>

\* What the requests and the gateway's answers are drawn from.  The gateway
\* may report any amount: the stored ones and one that no cart totals
StatusParams == {"successful", "Successful", "failed", "absent"}
\* uuid4 returns the ref of a stored row or a new value; the new values are
\* numbered in the order they come
Uuid4Values == 1 .. (Len(transactions) + 1)
StoredAmounts == {transactions[i].amount : i \in 1 .. Len(transactions)}
GatewayAmounts == StoredAmounts \cup {Tax - 1}
VerifyData ==
    [status : {"success"}, dstatus : {"successful", "failed"},
     amount : GatewayAmounts, currency : {"NGN", "USD"}]
\* an answer without data: the call raised, or the body reports an error
NoData(st) == [status |-> st, dstatus |-> "", amount |-> 0, currency |-> ""]
VerifyAnswers == VerifyData \cup {NoData("unreachable"), NoData("error")}
\* the answers the gateway would give to a verify call for a payment made
PaidAnswers == {vr \in VerifyData : vr.dstatus = "successful"
                                    /\ vr.currency = "NGN"}
Callers == Users \cup {AnonymousUser}
\* what requests.post does in initiate_payment
Nets == {"ok", "rejected", "network_error"}

----------------------------------------------------------------------------
(* The requests handled one at a time.  A callback whose status is not    *)
(* "successful" makes no verify call, so no answer comes with it.          *)

Next ==
    \/ \E code \in CartCodes, p \in RequestProductIds : AddItem(code, p)
    \/ \E id \in ItemIds, v \in QuantityValues : UpdateQuantity(id, v)
    \/ \E id \in ItemIds : DeleteItem(id)
    \/ \E user \in Users, code \in CartCodes, ref \in Uuid4Values,
          net \in Nets :
            InitiatePayment(user, code, ref, net)
    \/ \E user \in Callers, tx_ref \in Refs \cup {NoRef},
          vr \in VerifyAnswers :
            PaymentCallback(user, "successful", tx_ref, vr)
    \/ \E user \in Callers, status \in StatusParams \ {"successful"},
          tx_ref \in Refs \cup {NoRef} :
            PaymentCallback(user, status, tx_ref, NoData("unreachable"))

Spec == Init /\ [][Next]_vars

----------------------------------------------------------------------------
(* Two add_item requests in flight at once: no transaction wraps the        *)
(* handler, so each statement that reaches the database (the get and the   *)
(* create of get_or_create, the save) is a step of its own and the other   *)
(* requests run in between.                                                *)

\* the workers that are about to INSERT a CartItem
Creating == {w \in Procs : pc[w].at = "create"}

\* add_item up to the get of the second get_or_create, in worker w; the
\* Cart's get_or_create is kept whole by the unique cart_code
AddItemBegin(w, code, p) ==
    /\ pc[w].at = "idle"
    /\ (p \in ProductIds /\ ItemGet(items, code, p) = "DoesNotExist")
          => nextItemId + Cardinality(Creating) <= MaxItems
    /\ carts' = IF p \in ProductIds THEN GetOrCreateCart(carts, code)
                ELSE carts
    /\ pc' = [pc EXCEPT ![w] =
                IF p \notin ProductIds
                   \/ ItemGet(items, code, p) = "MultipleObjectsReturned"
                THEN Idle
                ELSE IF ItemGet(items, code, p) = "DoesNotExist"
                THEN [at |-> "create", cart |-> code, product |-> p,
                      item |-> 0]
                ELSE [at |-> "save", cart |-> code, product |-> p,
                      item |-> CHOOSE i \in ItemsOf(items, code, p) : TRUE]]
    /\ UNCHANGED <<items, nextItemId, transactions, catalogVars, users>>

\* the create of the second get_or_create, in worker w
AddItemCreate(w) ==
    /\ pc[w].at = "create"
    /\ items' = ItemCreate(items, nextItemId, pc[w].cart, pc[w].product)
    /\ nextItemId' = nextItemId + 1
    /\ pc' = [pc EXCEPT ![w] = [@ EXCEPT !.at = "save",
                                         !.item = nextItemId]]
    /\ UNCHANGED <<carts, transactions, catalogVars, users>>

\* cartItem.quantity = 1; cartItem.save(), in worker w
AddItemFinish(w) ==
    /\ pc[w].at = "save"
    /\ items' = AddItemStore(items, pc[w].item, pc[w].cart, pc[w].product)
    /\ pc' = [pc EXCEPT ![w] = Idle]
    /\ UNCHANGED <<carts, nextItemId, transactions, catalogVars, users>>

NextRace ==
    \/ \E w \in Procs, code \in CartCodes, p \in RequestProductIds :
            AddItemBegin(w, code, p)
    \/ \E w \in Procs : AddItemCreate(w)
    \/ \E w \in Procs : AddItemFinish(w)
    \/ \E id \in ItemIds, v \in QuantityValues : UpdateQuantity(id, v)
    \/ \E id \in ItemIds : DeleteItem(id)

SpecRace == Init /\ [][NextRace]_vars

----------------------------------------------------------------------------
(* Catalog store.  A text is the sequence of its words; a slug is the      *)
(* sequence of the tokens that its hyphens separate.                       *)

Names == {<<"Shoe">>, <<"shoe">>}
NoSlug == <<>>                          \* the slug field left empty
ExplicitSlugs == {<<"Shoe", "1">>}      \* a slug field filled in by hand

\* str.lower() of a word
Lower(word) == IF word = "Shoe" THEN "shoe" ELSE word

\* slugify(text): the words in lower case, joined by hyphens
Slugify(text) == [i \in DOMAIN text |-> Lower(text[i])]

\* base_slug: from the name when the instance has no slug, else from its slug
BaseSlug(name, given) ==
    IF given = NoSlug THEN Slugify(name) ELSE Slugify(given)

\* Product.objects.filter(slug=slug).exists()
SlugExists(ps, slug) == \E i \in 1 .. Len(ps) : ps[i].slug = slug

\* f'{base_slug}-{counter}'
Suffixed(base, counter) == Append(base, ToString(counter))

RECURSIVE UniqueSlug(_, _, _, _)
\* the while loop of Category.save, all its queries answered from ps
UniqueSlug(ps, base, slug, counter) ==
    IF SlugExists(ps, slug)
    THEN UniqueSlug(ps, base, Suffixed(base, counter), counter + 1)
    ELSE slug

\* super().save(): UPDATE the row of the instance's pk, INSERT when it has
\* none (pk = 0)
StoreRow(rows, pk, row) ==
    IF pk = 0 THEN Append(rows, row) ELSE [rows EXCEPT ![pk] = row]

\* the instance being saved is a new one, or a stored row loaded and saved
\* again, its slug field as stored or filled in by hand
SaveInput(rows, pk, name, given) ==
    /\ pk = 0 => name \in Names /\ given \in {NoSlug} \cup ExplicitSlugs
    /\ pk # 0 => /\ pk \in 1 .. Len(rows)
                 /\ name = rows[pk].name
                 /\ given \in {rows[pk].slug} \cup ExplicitSlugs
    /\ Len(BaseSlug(name, given)) < MaxSlugTokens

\* the Category rows Category.save leaves; Category.slug has no unique
\* constraint, so the write always goes through
CategorySaveRows(cats, ps, pk, name, given) ==
    StoreRow(cats, pk,
             [name |-> name,
              slug |-> UniqueSlug(ps, BaseSlug(name, given),
                                  BaseSlug(name, given), 1)])

\* Category.save
CategorySave(pk, name, given) ==
    /\ SaveInput(categories, pk, name, given)
    /\ pk = 0 => Len(categories) < MaxCategories
    /\ categories' = CategorySaveRows(categories, products, pk, name, given)
    /\ UNCHANGED <<shopVars, products, sv, users>>

\* SlugIsFree without the unique constraint
SlugIsFreeUnchecked(ps, pk, slug) == TRUE

\* slug = models.SlugField(unique=True): the INSERT or UPDATE is refused
\* (IntegrityError) when another row holds the slug
SlugIsFree(ps, pk, slug) == \A i \in 1 .. Len(ps) : ps[i].slug = slug => i = pk

\* the Product rows after super().save() of an instance with that slug
ProductWriteRows(ps, pk, name, slug) ==
    IF SlugIsFree(ps, pk, slug)
    THEN StoreRow(ps, pk, [name |-> name, slug |-> slug])
    ELSE ps

\* the Product rows Product.save leaves when no other request runs meanwhile
ProductSaveRows(ps, pk, name, given) ==
    ProductWriteRows(ps, pk, name,
                     UniqueSlug(ps, BaseSlug(name, given),
                                BaseSlug(name, given), 1))

\* Product.save, one call handled alone
ProductSave(pk, name, given) ==
    /\ SaveInput(products, pk, name, given)
    /\ pk = 0 => Len(products) < MaxProducts
    /\ products' = ProductSaveRows(products, pk, name, given)
    /\ UNCHANGED <<shopVars, categories, sv, users>>

\* the pks a save may carry: 0 for a new instance
ProductPks == 0 .. MaxProducts
CategoryPks == 0 .. MaxCategories
\* the slug fields the stored rows can hold, and those filled in by hand
StoredSlugs ==
    {products[i].slug : i \in 1 .. Len(products)}
        \cup {categories[i].slug : i \in 1 .. Len(categories)}
SlugFields == StoredSlugs \cup {NoSlug} \cup ExplicitSlugs

NextCatalog ==
    \/ \E pk \in ProductPks, name \in Names, given \in SlugFields :
            ProductSave(pk, name, given)
    \/ \E pk \in CategoryPks, name \in Names, given \in SlugFields :
            CategorySave(pk, name, given)

SpecCatalog == Init /\ [][NextCatalog]_vars

----------------------------------------------------------------------------
(* Two Product.save() calls in flight at once: each query of the loop and  *)
(* the write are steps of their own.                                       *)

\* the Product.save() calls that will INSERT
Inserting == {w \in Procs : sv[w].at # "idle" /\ sv[w].pk = 0}

\* Product.save up to the loop, in worker w
ProductSaveBegin(w, pk, name, given) ==
    /\ sv[w].at = "idle"
    /\ SaveInput(products, pk, name, given)
    /\ pk = 0 => Len(products) + Cardinality(Inserting) < MaxProducts
    /\ sv' = [sv EXCEPT ![w] =
                [at |-> "check", pk |-> pk, name |-> name, given |-> given,
                 base |-> BaseSlug(name, given),
                 slug |-> BaseSlug(name, given), counter |-> 1]]
    /\ UNCHANGED <<shopVars, products, categories, users>>

\* one query of the while loop of Product.save, in worker w
ProductSaveCheck(w) ==
    /\ sv[w].at = "check"
    /\ sv' = [sv EXCEPT ![w] =
                IF SlugExists(products, sv[w].slug)
                THEN [@ EXCEPT !.slug = Suffixed(sv[w].base, sv[w].counter),
                               !.counter = sv[w].counter + 1]
                ELSE [@ EXCEPT !.at = "write"]]
    /\ UNCHANGED <<shopVars, products, categories, users>>

\* self.slug = slug; super().save(**kwargs), in worker w
ProductSaveWrite(w) ==
    /\ sv[w].at = "write"
    /\ products' = ProductWriteRows(products, sv[w].pk, sv[w].name,
                                    sv[w].slug)
    /\ sv' = [sv EXCEPT ![w] = SaveIdle]
    /\ UNCHANGED <<shopVars, categories, users>>

NextCatalogRace ==
    \/ \E w \in Procs, pk \in ProductPks, name \in Names,
          given \in SlugFields :
            ProductSaveBegin(w, pk, name, given)
    \/ \E w \in Procs : ProductSaveCheck(w)
    \/ \E w \in Procs : ProductSaveWrite(w)

SpecCatalogRace == Init /\ [][NextCatalogRace]_vars

----------------------------------------------------------------------------
(* User store: registration *)

Usernames == {"ada", "obi", "uche"}
Emails == {"ada@mail.ng", "obi@mail.ng", "uche@mail.ng"}
Passwords == {"Violet-2024", "Amaka#7781", "12345"}

\* request.data of a registration
RegisterData ==
    [username : Usernames, email : Emails, password : Passwords,
     password2 : Passwords]

\* User.objects.filter(username=...).exists()
UsernameExists(us, username) ==
    \E i \in 1 .. Len(us) : us[i].username = username

\* User.objects.filter(email=...).exists()
EmailExists(us, email) == \E i \in 1 .. Len(us) : us[i].email = email

\* validate_password(password) raises: the password is too short and all
\* digits
ValidatePasswordRaises(password) == password = "12345"

\* The fields' own validation, which is_valid runs before validate: the
\* username field of the ModelSerializer carries the uniqueness of
\* AbstractUser.username
FieldErrors(us, data) ==
    IF UsernameExists(us, data.username) THEN {"username"} ELSE {}

\* ValidateErrors without the look-up of the email
ValidateErrorsNoEmail(us, data) ==
    IF data.password # data.password2 THEN {"password"}
    ELSE IF UsernameExists(us, data.username) THEN {"username"}
    ELSE IF ValidatePasswordRaises(data.password) THEN {"password"}
    ELSE {}

\* validate: the key of the ValidationError it raises, none when it returns
ValidateErrors(us, data) ==
    IF data.password # data.password2 THEN {"password"}
    ELSE IF UsernameExists(us, data.username) THEN {"username"}
    ELSE IF EmailExists(us, data.email) THEN {"email"}
    ELSE IF ValidatePasswordRaises(data.password) THEN {"password"}
    ELSE {}

\* serializer.errors after is_valid()
SerializerErrors(us, data) ==
    IF FieldErrors(us, data) # {} THEN FieldErrors(us, data)
    ELSE ValidateErrors(us, data)

\* user.set_password(password): the hash is stored, never the password
MakePassword(password) == <<"pbkdf2_sha256", password>>

\* create: password2 is dropped, the row is inserted and saved again with
\* the hashed password
CreateUser(us, data) ==
    Append(us, [username |-> data.username, email |-> data.email,
                password |-> MakePassword(data.password)])

\* the User rows register_user leaves
RegisterUsers(us, data) ==
    IF SerializerErrors(us, data) = {} THEN CreateUser(us, data) ELSE us

\* the answer of register_user
RegisterResponse(us, data) ==
    IF SerializerErrors(us, data) = {}
    THEN [status |-> 201, errors |-> {}]
    ELSE [status |-> 400, errors |-> SerializerErrors(us, data)]

\* register_user
RegisterUser(data) ==
    /\ SerializerErrors(users, data) = {} => Len(users) < MaxUsers
    /\ users' = RegisterUsers(users, data)
    /\ UNCHANGED <<shopVars, catalogVars>>

NextRegister == \E data \in RegisterData : RegisterUser(data)

SpecRegister == Init /\ [][NextRegister]_vars

----------------------------------------------------------------------------
(* Properties of the payment flow *)

\* the index set of the Transaction rows
TxIds == 1 .. Len(transactions)

\* a verify answer that reports a payment agreeing with the row t
Agrees(vr, t) ==
    /\ vr.status = "success"
    /\ vr.dstatus = "successful"
    /\ vr.amount = t.amount
    /\ vr.currency = t.currency

\* C1: after a finished payment_callback, for any caller, no Transaction is
\* "completed" while its Cart is unpaid or carries no user of the request.
C1_CompletedCartIsPaid ==
    \A i \in TxIds :
        transactions[i].status = "completed"
            => /\ carts[transactions[i].cart].paid
               /\ carts[transactions[i].cart].user \in Users

\* C2: a Cart is paid only if a Transaction linked to it is "completed", and
\* paid turns true only in a payment_callback step that takes the paid path
\* for a Transaction of that Cart and stores it as "completed".
C2_PaidOnlyWithCompleted ==
    [][/\ \A c \in DOMAIN carts' :
            carts'[c].paid
                => \E i \in 1 .. Len(transactions') :
                      /\ transactions'[i].cart = c
                      /\ transactions'[i].status = "completed"
       /\ \A c \in DOMAIN carts' :
            (carts'[c].paid /\ ~(c \in DOMAIN carts /\ carts[c].paid))
                => \E user \in Callers, tx_ref \in Refs, vr \in VerifyAnswers :
                      /\ PaymentCallback(user, "successful", tx_ref, vr)
                      /\ CallbackPath(user, "successful", tx_ref, vr) = "paid"
                      /\ \E i \in TxIds :
                            /\ transactions[i].ref = tx_ref
                            /\ transactions[i].cart = c
                            /\ transactions'[i].status = "completed"
      ]_vars

\* C2's case: a cart is paid while another cart, with a Transaction of its
\* own, is not.
C2_Witness ==
    \E c \in DOMAIN carts, d \in DOMAIN carts, i \in TxIds :
        /\ carts[c].paid
        /\ ~carts[d].paid
        /\ transactions[i].cart = d
        /\ transactions[i].status = "pending"

\* C3: a callback with status "successful" whose verification succeeds but
\* whose reported sub-status, amount and currency do not all match the stored
\* Transaction changes no Transaction and no Cart (a pending Transaction
\* stays pending, an unpaid Cart unpaid) and answers 400 "Payment
\* Verification Failed".
C3_MismatchLeavesPending ==
    \A user \in Callers, tx_ref \in Refs, vr \in VerifyData :
        LET i == TransactionByRef(transactions, tx_ref) IN
        (i # 0 /\ ~Agrees(vr, transactions[i]))
            => /\ CallbackTransactions(user, "successful", tx_ref, vr)
                    = transactions
               /\ CallbackCarts(user, "successful", tx_ref, vr) = carts
               /\ CallbackResponse(user, "successful", tx_ref, vr)
                    = Response("payment_callback", 400,
                               "Payment Verification Failed", "verify")

\* C3's case: a pending Transaction of an unpaid Cart, and a verified answer
\* that differs from it in the amount alone.
C3_Witness ==
    \E i \in TxIds, vr \in VerifyData :
        /\ transactions[i].status = "pending"
        /\ ~carts[transactions[i].cart].paid
        /\ vr.dstatus = "successful"
        /\ vr.currency = transactions[i].currency
        /\ vr.amount # transactions[i].amount
        /\ CallbackPath("u1", "successful", transactions[i].ref, vr)
              = "mismatch"

\* C4: a callback whose status is not the literal "successful" changes no
\* Transaction and no Cart, calls no gateway endpoint and answers 400
\* "Payment was not successful.".
C4_NotSuccessfulChangesNothing ==
    \A user \in Callers, status \in StatusParams \ {"successful"},
       tx_ref \in Refs \cup {NoRef}, vr \in VerifyAnswers :
        /\ CallbackTransactions(user, status, tx_ref, vr) = transactions
        /\ CallbackCarts(user, status, tx_ref, vr) = carts
        /\ CallbackResponse(user, status, tx_ref, vr)
              = Response("payment_callback", 400,
                         "Payment was not successful.", "none")

\* C4's case: a pending Transaction that a callback with status "successful"
\* and the same answer would complete.
C4_Witness ==
    \E i \in TxIds, vr \in PaidAnswers :
        /\ transactions[i].status = "pending"
        /\ Agrees(vr, transactions[i])
        /\ CallbackPath("u1", "successful", transactions[i].ref, vr) = "paid"
        /\ CallbackPath("u1", "Successful", transactions[i].ref, vr)
              = "not_successful"

\* C5: initiate_payment creates a Transaction row only for a Cart that is
\* unpaid: no step adds a row whose Cart had paid = true.
C5_InitiateOnlyForUnpaid ==
    [][\A i \in 1 .. Len(transactions') :
            i > Len(transactions) => ~carts[transactions'[i].cart].paid
      ]_vars

RECURSIVE C6_LineSum(_, _)
\* the sum of quantity x price over the CartItem rows 1 .. n of a cart
C6_LineSum(code, n) ==
    IF n = 0 THEN 0
    ELSE (IF n \in DOMAIN items /\ items[n].cart = code
          THEN items[n].quantity * Price(items[n].product) ELSE 0)
         + C6_LineSum(code, n - 1)

\* C6: the row initiate_payment creates is "pending", in "NGN", carries a
\* ref no other row carries and an amount of the cart's line sum at that
\* time plus 4.00 (4.00 sharp for a cart without items); no two stored rows
\* share a ref.
C6_CreatedTransaction ==
    /\ \A i \in TxIds, j \in TxIds :
          transactions[i].ref = transactions[j].ref => i = j
    /\ \A user \in Users, code \in CartCodes, ref \in Uuid4Values,
          net \in Nets :
          LET after == InitiateTransactions(user, code, ref, net) IN
          after # transactions
            => /\ Len(after) = Len(transactions) + 1
               /\ SubSeq(after, 1, Len(transactions)) = transactions
               /\ after[Len(after)].status = "pending"
               /\ after[Len(after)].currency = "NGN"
               /\ after[Len(after)].cart = code
               /\ \A j \in TxIds :
                      transactions[j].ref # after[Len(after)].ref
               /\ after[Len(after)].amount
                      = C6_LineSum(code, nextItemId - 1) + 400
               /\ (\A n \in DOMAIN items : items[n].cart # code)
                      => after[Len(after)].amount = 400

\* C6's case: a row created for a cart without items beside a row created
\* for a cart with a line of quantity two or more.
C6_Witness ==
    \E i \in TxIds, j \in TxIds :
        /\ transactions[i].amount = 400
        /\ transactions[j].amount >= 400 + 2 * Price("p2")
        /\ transactions[i].ref # transactions[j].ref

\* C7: when requests.post raises, initiate_payment answers 500 and the row
\* it inserted stays, "pending"; and no step of the system removes a stored
\* row, changes its ref, cart or amount, or gives it a status other than the
\* one it has or "completed".
C7_FailedInitiateKeepsRow ==
    [][/\ \A user \in Users, code \in CartCodes, ref \in Uuid4Values :
            InitiateStores(code, ref)
              => LET after == InitiateTransactions(user, code, ref,
                                                   "network_error")
                 IN  /\ InitiateResponse(code, ref, "network_error").code
                          = 500
                     /\ Len(after) = Len(transactions) + 1
                     /\ after[Len(after)].ref = ref
                     /\ after[Len(after)].status = "pending"
       /\ \A i \in TxIds :
            /\ i <= Len(transactions')
            /\ transactions'[i].ref = transactions[i].ref
            /\ transactions'[i].cart = transactions[i].cart
            /\ transactions'[i].amount = transactions[i].amount
            /\ transactions'[i].status
                  \in {transactions[i].status, "completed"}
      ]_vars

\* C7's case: a pending row that outlived a later initiate_payment and a
\* later completed payment.
C7_Witness ==
    \E i \in TxIds, j \in TxIds :
        /\ i < j
        /\ transactions[i].status = "pending"
        /\ transactions[j].status = "completed"

----------------------------------------------------------------------------
(* Properties of the cart *)

\* C8: at most one CartItem row per (cart, product) pair, also when two
\* add_item requests for the same pair interleave.
C8_OneItemPerPair ==
    \A i \in DOMAIN items, j \in DOMAIN items :
        (items[i].cart = items[j].cart /\ items[i].product = items[j].product)
            => i = j

\* C9: after a successful add_item(cart_code, product_id) there is a
\* CartItem of that pair and every CartItem of that pair has quantity 1,
\* whatever the quantity was before.
C9_AddItemResetsQuantity ==
    \A code \in CartCodes, p \in RequestProductIds :
        AddItemResponse(code, p).code = 201
            => LET after == AddItemItems(code, p) IN
               /\ \E i \in DOMAIN after :
                      after[i].cart = code /\ after[i].product = p
               /\ \A i \in DOMAIN after :
                      (after[i].cart = code /\ after[i].product = p)
                          => after[i].quantity = 1

\* C9's case: a CartItem that update_quantity has set above 1 and that an
\* add_item for its pair finds.
C9_Witness ==
    \E i \in DOMAIN items :
        /\ items[i].quantity > 1
        /\ AddItemResponse(items[i].cart, items[i].product).code = 201
        /\ AddItemItems(items[i].cart, items[i].product)[i].quantity = 1

\* C10: every CartItem has quantity >= 1.
C10_QuantityAtLeastOne ==
    \A i \in DOMAIN items : items[i].quantity >= 1

\* C11: product_in_cart answers product_exists = false, and no error, when
\* the Cart of the cart_code or the Product of the product_id does not
\* exist; when both exist it answers product_exists = true exactly when a
\* CartItem of that pair exists.
C11_ProductInCartAnswers ==
    \A code \in CartCodes, p \in RequestProductIds :
        LET r == ProductInCartResponse(carts, items, code, p) IN
        /\ "product_exists" \in DOMAIN r.body
        /\ "error" \notin DOMAIN r.body
        /\ r.body.product_exists
              = (/\ code \in DOMAIN carts
                 /\ p \in ProductIds
                 /\ \E i \in DOMAIN items :
                        items[i].cart = code /\ items[i].product = p)

----------------------------------------------------------------------------
(* Properties of the catalog *)

\* C12: no two Product rows have the same slug, after any sequence of saves
\* (creates and saves of stored rows, with or without a slug filled in) and
\* any interleaving of two saves in flight at once.
C12_UniqueProductSlugs ==
    \A i \in 1 .. Len(products), j \in 1 .. Len(products) :
        products[i].slug = products[j].slug => i = j

\* C12's case: two rows of one name are stored, and a save of a further
\* instance has left its loop with a slug that a row written meanwhile holds.
C12_Witness ==
    \E w \in Procs :
        /\ sv[w].at = "write"
        /\ ~SlugIsFree(products, sv[w].pk, sv[w].slug)
        /\ Len(products) = 2
        /\ products[1].name = products[2].name

\* C13: saving a stored Product again, its name and slug as stored, leaves
\* its slug as it was.
C13_ResaveKeepsSlug ==
    \A pk \in 1 .. Len(products) :
        ProductSaveRows(products, pk, products[pk].name,
                        products[pk].slug)[pk].slug
            = products[pk].slug

\* the slug of the k-th record created after the first of a name
NthSlug(name, k) ==
    IF k = 0 THEN Slugify(name) ELSE Suffixed(Slugify(name), k)

\* the rows are records of one name whose slugs are name, name-1, name-2, ...
\* in creation order
InCreationOrder(rows, name) ==
    \A i \in 1 .. Len(rows) :
        rows[i].name = name /\ rows[i].slug = NthSlug(name, i - 1)

\* C14: when the k Products stored are of one name with the slugs name,
\* name-1, ..., name-(k-1) in creation order, creating one more of that name
\* without a slug stores it with the slug name-k; and the same for
\* Categories, no Product holding one of these slugs.
C14_SlugsInCreationOrder ==
    \A name \in Names :
        /\ InCreationOrder(products, name)
              => LET after == ProductSaveRows(products, 0, name, NoSlug) IN
                 /\ Len(after) = Len(products) + 1
                 /\ after[Len(after)].slug = NthSlug(name, Len(products))
        /\ (/\ InCreationOrder(categories, name)
            /\ \A k \in 0 .. Len(categories) :
                  ~SlugExists(products, NthSlug(name, k)))
              => LET after == CategorySaveRows(categories, products, 0, name,
                                               NoSlug)
                 IN  /\ Len(after) = Len(categories) + 1
                     /\ after[Len(after)].slug
                          = NthSlug(name, Len(categories))

----------------------------------------------------------------------------
(* Properties of the user store *)

\* C15: a registration whose password differs from password2, whose username
\* or email is stored already, or whose password the strength validator
\* rejects, is answered 400 with errors under field names only and leaves
\* the User rows as they were; each of the four alone brings the error under
\* its field: password, username, email, password.
C15_FailedRegistrationCreatesNoUser ==
    \A data \in RegisterData :
        LET mismatch == data.password # data.password2
            username == UsernameExists(users, data.username)
            email == EmailExists(users, data.email)
            weak == ValidatePasswordRaises(data.password)
            r == RegisterResponse(users, data)
        IN  /\ (mismatch \/ username \/ email \/ weak)
                  => /\ RegisterUsers(users, data) = users
                     /\ r.status = 400
                     /\ r.errors # {}
                     /\ r.errors \subseteq {"password", "username", "email"}
            /\ (mismatch /\ ~username /\ ~email /\ ~weak)
                  => "password" \in r.errors
            /\ (username /\ ~mismatch /\ ~email /\ ~weak)
                  => "username" \in r.errors
            /\ (email /\ ~mismatch /\ ~username /\ ~weak)
                  => "email" \in r.errors
            /\ (weak /\ ~mismatch /\ ~username /\ ~email)
                  => "password" \in r.errors

\* C15's case: two users are registered, and requests exist that fail on the
\* email alone, on the username alone and on the strength of the password
\* alone.
C15_Witness ==
    /\ Len(users) = 2
    /\ \E d \in RegisterData : RegisterResponse(users, d).errors = {"email"}
                               /\ ~UsernameExists(users, d.username)
    /\ \E d \in RegisterData : RegisterResponse(users, d).errors = {"username"}
                               /\ ~EmailExists(users, d.email)
    /\ \E d \in RegisterData :
          /\ RegisterResponse(users, d).errors = {"password"}
          /\ d.password = d.password2

----------------------------------------------------------------------------
(* Properties of the cart summary *)

RECURSIVE C16_QuantitySum(_, _, _)
\* the sum of the quantities of the CartItem rows 1 .. n of a cart
C16_QuantitySum(its, code, n) ==
    IF n = 0 THEN 0
    ELSE (IF n \in DOMAIN its /\ its[n].cart = code THEN its[n].quantity
          ELSE 0)
         + C16_QuantitySum(its, code, n - 1)

\* a cart with the lines (price 10.00, quantity 2) and (price 5.00,
\* quantity 3)
C16_ExampleItems ==
    (1 :> [cart |-> "c1", product |-> "p1", quantity |-> 2])
        @@ (2 :> [cart |-> "c1", product |-> "p2", quantity |-> 3])

\* C16: for every cart sum_total is the sum of price x quantity over its
\* CartItems and num_of_items the sum of their quantities, both 0 for a cart
\* without items; the lines (10.00, 2) and (5.00, 3) give 35.00 and 5; the
\* simplified summary's number_of_items equals num_of_items.
C16_CartSummary ==
    /\ \A code \in DOMAIN carts :
          /\ GetSumTotal(items, code) = C6_LineSum(code, nextItemId - 1)
          /\ GetNumOfItems(items, code)
                = C16_QuantitySum(items, code, nextItemId - 1)
          /\ (\A i \in DOMAIN items : items[i].cart # code)
                => /\ GetSumTotal(items, code) = 0
                   /\ GetNumOfItems(items, code) = 0
          /\ GetNumberOfItems(items, code) = GetNumOfItems(items, code)
    /\ GetSumTotal(C16_ExampleItems, "c1") = 3500
    /\ GetNumOfItems(C16_ExampleItems, "c1") = 5
    /\ GetNumberOfItems(C16_ExampleItems, "c1") = 5

\* C16's case: a cart with two lines of different quantities.
C16_Witness ==
    \E c \in DOMAIN carts :
        /\ Cardinality(CartItemsOf(items, c)) = 2
        /\ GetNumOfItems(items, c) = 3
        /\ GetSumTotal(items, c) \in {2000, 2500}

----------------------------------------------------------------------------
(* Safety of the payment flow *)

\* what the gateway's verify endpoint answers for a successful payment that
\* was made for the Transaction t: the payment carries t's reference
C17_PaymentFor(t) ==
    [status |-> "success", dstatus |-> "successful", amount |-> t.amount,
     currency |-> t.currency, tx_ref |-> t.ref]

\* C17: a callback whose verified gateway payment carries the reference of
\* one Transaction and whose tx_ref names another, pending, Transaction
\* leaves that other Transaction pending, equal amount and currency or not.
C17_CompletedOnlyByOwnPayment ==
    \A i \in TxIds, j \in TxIds, user \in Callers :
        (/\ transactions[j].status = "pending"
         /\ C17_PaymentFor(transactions[i]).tx_ref # transactions[j].ref)
            => CallbackTransactions(user, "successful", transactions[j].ref,
                                    C17_PaymentFor(transactions[i]))[j].status
                  = "pending"

\* C18: in a step that makes a Cart paid, the Transaction it completes has
\* the amount the cart totals at that moment: quantity x price over its
\* CartItems plus the 4.00 tax.
C18_PaidForCurrentTotal ==
    [][\A i \in TxIds :
          (/\ transactions[i].status # "completed"
           /\ transactions'[i].status = "completed"
           /\ ~carts[transactions[i].cart].paid
           /\ carts'[transactions[i].cart].paid)
              => transactions'[i].amount
                    = TotalAmount(items', transactions[i].cart)
      ]_vars

\* C19: no step adds a CartItem to a Cart that is paid, removes one from it
\* or changes the quantity of one of its CartItems.
C19_PaidCartFrozen ==
    [][\A c \in DOMAIN carts :
          carts[c].paid
              => [i \in CartItemsOf(items', c) |-> items'[i]]
                    = [i \in CartItemsOf(items, c) |-> items[i]]
      ]_vars

\* C20: each Cart has at most one Transaction with status "completed".
C20_OneCompletedPerCart ==
    \A i \in TxIds, j \in TxIds :
        (/\ transactions[i].status = "completed"
         /\ transactions[j].status = "completed"
         /\ transactions[i].cart = transactions[j].cart)
            => i = j

====
